---- MODULE Spec2Model ----
(***************************************************************************)
(* The request / checkpoint versioning core of the API tester backend:     *)
(* RequestService (request.service.ts) and CheckpointService               *)
(* (checkpoint.service.ts) over the two MongoDB collections they use.      *)
(*                                                                         *)
(* A document is a record; a collection is a function from the ids of the  *)
(* documents it holds to those documents.  A field that is not stored in   *)
(* a document (JavaScript undefined) has the value Absent.  Mongoose does  *)
(* not store undefined keys, and an update document sets only the keys it  *)
(* carries, so a key whose value is Absent in an update leaves the stored  *)
(* field as it is.                                                         *)
(***************************************************************************)
EXTENDS Integers, Sequences, FiniteSets, TLC

\* ------------------------------------------------------------------ bounds
\* How many Request documents are ever created (ids are never reused).
MaxRequests == 2
\* How many Checkpoint documents are ever created (ids are never reused).
MaxCheckpoints == 2
\* How many requests the frontend's create mutations ever get back.
MaxStoreRequests == 2
\* How many mutation calls of the frontend store are in flight at once.
MaxInFlight == 2

\* The names checkpoints are created with.
CheckpointNames == {"v1"}

\* ------------------------------------------------------------------ values
Absent == "undefined"

RequestIds == 1..MaxRequests
CheckpointIds == 1..MaxCheckpoints

\* The enum of Request.method.
Methods == {"GET", "POST", "PUT", "DELETE"}

\* @prop({ trim: true }): the string without its surrounding whitespace.
Trim(s) == IF s = " a" THEN "a" ELSE s

\* The fields of a Request that hold strings or objects (all but unsaved).
ValueFields == {"name", "url", "method", "headers", "body"}

\* ------------------------------------------------------------------ state
VARIABLES
    requests,          \* the Request collection: id -> document
    checkpoints,       \* the Checkpoint collection: id -> document
    nextRequestId,     \* the _id the next created Request gets
    nextCheckpointId,  \* the _id the next created Checkpoint gets
    clock,             \* the time the next written document is stamped with
    last,              \* the call that ended last and how it ended
    cc,                \* the CheckpointService.create call in flight
    rb,                \* the CheckpointService.rollback call in flight
    scenario,          \* how far the end-to-end scenario has come
    proxy,             \* the last call of the proxy ("send") feature
    store,             \* the state of the frontend's useRequestStore
    calls,             \* the store's mutation calls in flight
    served,            \* how many requests the create mutations have returned
    thrown,            \* the store call that settled last and what it threw
    query              \* the 'requests' query and the answer on its way

vars == <<requests, checkpoints, nextRequestId, nextCheckpointId, clock, last,
          cc, rb, scenario, proxy, store, calls, served, thrown, query>>

\* The state of the frontend.
frontend == <<store, calls, served, thrown, query>>

\* The state outside the request / checkpoint core.
outside == <<proxy, frontend>>

\* What a call leaves behind for its caller: the operation, the ids it was
\* about, its outcome, and for CheckpointService.create whether the
\* flag-reset step failed; wasUnsaved is the target Request's flag before
\* the call's write (TRUE when there was no target).
Outcome(op, rid, cid, result, flagFailed, wasUnsaved) ==
    [op |-> op, rid |-> rid, cid |-> cid, result |-> result,
     flagFailed |-> flagFailed, wasUnsaved |-> wasUnsaved]

Exists(coll, id) == id \in DOMAIN coll

FlagOf(id) == IF Exists(requests, id) THEN requests[id].unsaved ELSE TRUE

\* ------------------------------------------------------- persistence layer
\* Model.findByIdAndUpdate(id, update, { new: true }) on a collection that
\* holds id: the keys the update carries are set, every other field stays.
ApplyUpdate(doc, update) ==
    [f \in DOMAIN doc |->
        IF f \in DOMAIN update
        THEN IF f \in ValueFields /\ update[f] = Absent
             THEN doc[f]
             ELSE IF f \in {"name", "url"} THEN Trim(update[f]) ELSE update[f]
        ELSE doc[f]]

FindByIdAndUpdate(coll, id, update) ==
    [coll EXCEPT ![id] = ApplyUpdate(@, update)]

\* Model.deleteOne({ _id: id }) on a collection that holds id.
DeleteOne(coll, id) == [i \in DOMAIN coll \ {id} |-> coll[i]]

\* new Model(doc).save(): the collection with the document under a new id.
Insert(coll, id, doc) == [i \in DOMAIN coll \cup {id} |-> IF i = id THEN doc ELSE coll[i]]

\* ---------------------------------------------------------- RequestService
\* The payloads create is called with: CreateRequestDto's url, method and
\* optional headers and body, and the name the Request schema requires.
\* " a" carries leading whitespace, which the schema's trim removes.
CreateDtos ==
    { [name |-> "n1", url |-> "a", method |-> "GET",
       headers |-> Absent, body |-> Absent],
      [name |-> "n1", url |-> " a", method |-> "GET",
       headers |-> Absent, body |-> Absent],
      [name |-> "n1", url |-> "b", method |-> "POST",
       headers |-> "h1", body |-> "b1"],
      [name |-> Absent, url |-> "a", method |-> "GET",
       headers |-> Absent, body |-> Absent] }

\* The payloads update is called with: every field of UpdateRequestDto is
\* optional.
UpdateDtos ==
    { [url |-> Absent, method |-> Absent, headers |-> Absent, body |-> Absent],
      [url |-> "b", method |-> Absent, headers |-> Absent, body |-> Absent],
      [url |-> " a", method |-> Absent, headers |-> Absent, body |-> Absent],
      [url |-> Absent, method |-> "POST", headers |-> Absent, body |-> Absent],
      [url |-> Absent, method |-> "GET", headers |-> Absent, body |-> Absent],
      [url |-> Absent, method |-> Absent, headers |-> "h1", body |-> "b1"] }

\* The Request schema's validators, run by save(): name, url and method are
\* required, method is one of the enum.
ValidRequest(doc) ==
    /\ doc.name # Absent /\ doc.name # ""
    /\ doc.url # Absent /\ doc.url # ""
    /\ doc.method \in Methods

\* A Request whose unsaved flag defaults to false.
NewRequest_DefaultSaved(dto) ==
    [name |-> Trim(dto.name), url |-> Trim(dto.url), method |-> dto.method,
     headers |-> dto.headers, body |-> dto.body, unsaved |-> FALSE]

\* new this.requestModel(dto): the schema's setters and defaults applied.
NewRequest(dto) ==
    [name |-> Trim(dto.name), url |-> Trim(dto.url), method |-> dto.method,
     headers |-> dto.headers, body |-> dto.body, unsaved |-> TRUE]

\* RequestService.create
create(dto) ==
    /\ nextRequestId <= MaxRequests
    /\ IF ValidRequest(NewRequest(dto))
       THEN /\ requests' = Insert(requests, nextRequestId, NewRequest(dto))
            /\ nextRequestId' = nextRequestId + 1
            /\ last' = Outcome("create", nextRequestId, 0, "ok", FALSE, TRUE)
       ELSE /\ last' = Outcome("create", 0, 0, "ValidationError", FALSE, TRUE)
            /\ UNCHANGED <<requests, nextRequestId>>
    /\ UNCHANGED <<checkpoints, nextCheckpointId, clock>>

\* The bodies POST /requests is sent: the fields of CreateRequestDto, and
\* in one a name, which the Request schema requires and the DTO lacks;
\* "PATCH" is not in the DTO's enum and " a" is not a URL.
CreateBodies ==
    { [name |-> Absent, url |-> "a", method |-> "GET",
       headers |-> Absent, body |-> Absent],
      [name |-> Absent, url |-> "b", method |-> "POST",
       headers |-> "h1", body |-> "b1"],
      [name |-> "n1", url |-> "a", method |-> "GET",
       headers |-> Absent, body |-> Absent],
      [name |-> Absent, url |-> " a", method |-> "GET",
       headers |-> Absent, body |-> Absent],
      [name |-> Absent, url |-> "a", method |-> "PATCH",
       headers |-> Absent, body |-> Absent],
      [name |-> Absent, url |-> Absent, method |-> "GET",
       headers |-> Absent, body |-> Absent] }

\* @IsUrl() on CreateRequestDto.url.
IsUrl(u) == u \in {"a", "b"}

\* The controller's ValidationPipe({ whitelist, forbidNonWhitelisted }) on
\* CreateRequestDto: a property the DTO does not declare is refused, url
\* must be a URL and method one of the enum.
PipeRejects(body) ==
    \/ body.name # Absent
    \/ ~IsUrl(body.url)
    \/ body.method \notin Methods

\* RequestController.create: the pipe, then RequestService.create with
\* the validated DTO; an error of the service that is no HttpException
\* is answered with 500.
RequestController_create(body) ==
    /\ nextRequestId <= MaxRequests
    /\ IF PipeRejects(body)
       THEN /\ last' = Outcome("RequestController.create", 0, 0, "BadRequest",
                               FALSE, TRUE)
            /\ UNCHANGED <<requests, nextRequestId>>
       ELSE IF ValidRequest(NewRequest(body))
            THEN /\ requests' = Insert(requests, nextRequestId, NewRequest(body))
                 /\ nextRequestId' = nextRequestId + 1
                 /\ last' = Outcome("RequestController.create", nextRequestId,
                                    0, "ok", FALSE, TRUE)
            ELSE /\ last' = Outcome("RequestController.create", 0, 0,
                                    "InternalServerError", FALSE, TRUE)
                 /\ UNCHANGED <<requests, nextRequestId>>
    /\ UNCHANGED <<checkpoints, nextCheckpointId, clock>>

\* RequestService.findAll
findAll ==
    /\ last' = Outcome("findAll", 0, 0, "ok", FALSE, TRUE)
    /\ UNCHANGED <<requests, checkpoints, nextRequestId, nextCheckpointId, clock>>

\* RequestService.findOne
findOne(id) ==
    /\ last' = Outcome("findOne", id, 0,
                       IF Exists(requests, id) THEN "ok" ELSE "NotFound",
                       FALSE, FlagOf(id))
    /\ UNCHANGED <<requests, checkpoints, nextRequestId, nextCheckpointId, clock>>

\* An update that writes only the payload and leaves the flag alone.
update_KeepsFlag(id, dto) ==
    /\ IF Exists(requests, id)
       THEN /\ requests' = FindByIdAndUpdate(requests, id,
                    [url |-> dto.url, method |-> dto.method,
                     headers |-> dto.headers, body |-> dto.body])
            /\ last' = Outcome("update", id, 0, "ok", FALSE, FlagOf(id))
       ELSE /\ last' = Outcome("update", id, 0, "NotFound", FALSE, TRUE)
            /\ UNCHANGED requests
    /\ UNCHANGED <<checkpoints, nextRequestId, nextCheckpointId, clock>>

\* An update whose write reaches the data of the Request's checkpoints too
\* (the snapshot held by reference).
update_SharesData(id, dto) ==
    /\ IF Exists(requests, id)
       THEN /\ requests' = FindByIdAndUpdate(requests, id,
                    [url |-> dto.url, method |-> dto.method,
                     headers |-> dto.headers, body |-> dto.body,
                     unsaved |-> TRUE])
            /\ checkpoints' =
                   [c \in DOMAIN checkpoints |->
                       IF checkpoints[c].requestId = id
                       THEN [checkpoints[c] EXCEPT
                                !.data = ApplyUpdate(@, dto)]
                       ELSE checkpoints[c]]
            /\ last' = Outcome("update", id, 0, "ok", FALSE, FlagOf(id))
       ELSE /\ last' = Outcome("update", id, 0, "NotFound", FALSE, TRUE)
            /\ UNCHANGED <<requests, checkpoints>>
    /\ UNCHANGED <<nextRequestId, nextCheckpointId, clock>>

\* RequestService.update
update(id, dto) ==
    /\ IF Exists(requests, id)
       THEN /\ requests' = FindByIdAndUpdate(requests, id,
                    [url |-> dto.url, method |-> dto.method,
                     headers |-> dto.headers, body |-> dto.body,
                     unsaved |-> TRUE])
            /\ last' = Outcome("update", id, 0, "ok", FALSE, FlagOf(id))
       ELSE /\ last' = Outcome("update", id, 0, "NotFound", FALSE, TRUE)
            /\ UNCHANGED requests
    /\ UNCHANGED <<checkpoints, nextRequestId, nextCheckpointId, clock>>

\* A remove that deletes the Request's checkpoints with it.
remove_Cascades(id) ==
    /\ IF Exists(requests, id)
       THEN /\ requests' = DeleteOne(requests, id)
            /\ checkpoints' =
                   [c \in {d \in DOMAIN checkpoints :
                              checkpoints[d].requestId # id} |-> checkpoints[c]]
            /\ last' = Outcome("remove", id, 0, "ok", FALSE, FlagOf(id))
       ELSE /\ last' = Outcome("remove", id, 0, "NotFound", FALSE, TRUE)
            /\ UNCHANGED <<requests, checkpoints>>
    /\ UNCHANGED <<nextRequestId, nextCheckpointId, clock>>

\* RequestService.remove
remove(id) ==
    /\ IF Exists(requests, id)
       THEN /\ requests' = DeleteOne(requests, id)
            /\ last' = Outcome("remove", id, 0, "ok", FALSE, FlagOf(id))
       ELSE /\ last' = Outcome("remove", id, 0, "NotFound", FALSE, TRUE)
            /\ UNCHANGED requests
    /\ UNCHANGED <<checkpoints, nextRequestId, nextCheckpointId, clock>>

\* A setUnsavedStatus that does not write the flag.
setUnsavedStatus_NoWrite(id, status, dbFails) == requests

\* RequestService.setUnsavedStatus, called by CheckpointService.create
\* alone: the collection after the call, and whether the call throws
\* (the Request is gone, or the database operation fails).
SetUnsavedThrows(id, dbFails) == dbFails \/ ~Exists(requests, id)

setUnsavedStatus(id, status, dbFails) ==
    IF SetUnsavedThrows(id, dbFails)
    THEN requests
    ELSE FindByIdAndUpdate(requests, id, [unsaved |-> status])

\* ------------------------------------------------------- CheckpointService
\* checkpointData: the four fields read from the loaded Request.
CheckpointData(request) ==
    [url |-> request.url, method |-> request.method,
     headers |-> request.headers, body |-> request.body]

\* new this.checkpointModel({ requestId, name, data }), stamped by save().
NewCheckpoint(requestId, name, data) ==
    [requestId |-> requestId, name |-> Trim(name), data |-> data,
     createdAt |-> clock]

\* A create that does not look the Request up: for a Request that does not
\* exist it persists a checkpoint without data.
CheckpointCreate_NoExistenceCheck(requestId, name, dbFails) ==
    /\ nextCheckpointId <= MaxCheckpoints
    /\ checkpoints' = Insert(checkpoints, nextCheckpointId,
            NewCheckpoint(requestId, name,
                IF Exists(requests, requestId)
                THEN CheckpointData(requests[requestId])
                ELSE [url |-> Absent, method |-> Absent,
                      headers |-> Absent, body |-> Absent]))
    /\ nextCheckpointId' = nextCheckpointId + 1
    /\ clock' = clock + 1
    /\ requests' = setUnsavedStatus(requestId, FALSE, dbFails)
    /\ last' = Outcome("createCheckpoint", requestId, nextCheckpointId,
                       "ok", SetUnsavedThrows(requestId, dbFails),
                       FlagOf(requestId))
    /\ UNCHANGED nextRequestId

\* CheckpointService.create; dbFails: the database operation of the
\* flag-reset step fails.
CheckpointCreate(requestId, name, dbFails) ==
    /\ nextCheckpointId <= MaxCheckpoints
    /\ IF Exists(requests, requestId)
       THEN /\ checkpoints' = Insert(checkpoints, nextCheckpointId,
                    NewCheckpoint(requestId, name,
                                  CheckpointData(requests[requestId])))
            /\ nextCheckpointId' = nextCheckpointId + 1
            /\ clock' = clock + 1
            /\ requests' = setUnsavedStatus(requestId, FALSE, dbFails)
            /\ last' = Outcome("createCheckpoint", requestId, nextCheckpointId,
                               "ok", SetUnsavedThrows(requestId, dbFails),
                               FlagOf(requestId))
       ELSE /\ last' = Outcome("createCheckpoint", requestId, 0, "NotFound",
                               FALSE, TRUE)
            /\ UNCHANGED <<requests, checkpoints, nextCheckpointId, clock>>
    /\ UNCHANGED nextRequestId

\* The checkpoints of a Request, as find({ requestId }) selects them.
CheckpointsOf(requestId) ==
    {c \in DOMAIN checkpoints : checkpoints[c].requestId = requestId}

\* A sort by createdAt ascending: the checkpoints oldest first.
RECURSIVE NewestFirst_OldestFirst(_)
NewestFirst_OldestFirst(S) ==
    IF S = {}
    THEN <<>>
    ELSE LET oldest == CHOOSE c \in S :
                 \A d \in S : checkpoints[c].createdAt <= checkpoints[d].createdAt
         IN  <<oldest>> \o NewestFirst_OldestFirst(S \ {oldest})

\* sort({ createdAt: -1 }): the checkpoints newest first.
RECURSIVE NewestFirst(_)
NewestFirst(S) ==
    IF S = {}
    THEN <<>>
    ELSE LET newest == CHOOSE c \in S :
                 \A d \in S : checkpoints[d].createdAt <= checkpoints[c].createdAt
         IN  <<newest>> \o NewestFirst(S \ {newest})

\* What findAllForRequest hands back: NotFound for a Request that does not
\* exist, and otherwise the ids of its checkpoints, newest first.
FindAllForRequestResult(requestId) ==
    IF Exists(requests, requestId)
    THEN [result |-> "ok", list |-> NewestFirst(CheckpointsOf(requestId))]
    ELSE [result |-> "NotFound", list |-> <<>>]

\* A findAllForRequest without the check that the Request exists.
findAllForRequest_NoExistenceCheck(requestId) ==
    /\ last' = Outcome("findAllForRequest", requestId, 0, "ok", FALSE,
                       FlagOf(requestId))
    /\ UNCHANGED <<requests, checkpoints, nextRequestId, nextCheckpointId, clock>>

\* CheckpointService.findAllForRequest
findAllForRequest(requestId) ==
    /\ last' = Outcome("findAllForRequest", requestId, 0,
                       IF Exists(requests, requestId) THEN "ok" ELSE "NotFound",
                       FALSE, FlagOf(requestId))
    /\ UNCHANGED <<requests, checkpoints, nextRequestId, nextCheckpointId, clock>>

\* A rollback update that also resets the Request's name.
RollbackUpdate_ResetsName(data) ==
    [name |-> "rolled back", url |-> data.url, method |-> data.method,
     headers |-> data.headers, body |-> data.body, unsaved |-> TRUE]

\* A rollback update that marks the Request saved.
RollbackUpdate_MarksSaved(data) ==
    [url |-> data.url, method |-> data.method, headers |-> data.headers,
     body |-> data.body, unsaved |-> FALSE]

\* A rollback update that leaves the url out.
RollbackUpdate_DropsUrl(data) ==
    [method |-> data.method, headers |-> data.headers,
     body |-> data.body, unsaved |-> TRUE]

\* The update rollback sends: { ...data, unsaved: true }.
RollbackUpdate(data) ==
    [url |-> data.url, method |-> data.method, headers |-> data.headers,
     body |-> data.body, unsaved |-> TRUE]

\* A rollback that reports a vanished Request as NotFound, like a missing
\* checkpoint.
rollback_OneError(checkpointId) ==
    /\ IF ~Exists(checkpoints, checkpointId)
       THEN /\ last' = Outcome("rollback", 0, checkpointId, "NotFound",
                               FALSE, TRUE)
            /\ UNCHANGED requests
       ELSE LET requestId == checkpoints[checkpointId].requestId
                data == checkpoints[checkpointId].data
            IN  IF Exists(requests, requestId)
                THEN /\ requests' = FindByIdAndUpdate(requests, requestId,
                                                      RollbackUpdate(data))
                     /\ last' = Outcome("rollback", requestId, checkpointId,
                                        "ok", FALSE, FlagOf(requestId))
                ELSE /\ last' = Outcome("rollback", requestId, checkpointId,
                                        "NotFound", FALSE, TRUE)
                     /\ UNCHANGED requests
    /\ UNCHANGED <<checkpoints, nextRequestId, nextCheckpointId, clock>>

\* CheckpointService.rollback
rollback(checkpointId) ==
    /\ IF ~Exists(checkpoints, checkpointId)
       THEN /\ last' = Outcome("rollback", 0, checkpointId, "NotFound",
                               FALSE, TRUE)
            /\ UNCHANGED requests
       ELSE LET requestId == checkpoints[checkpointId].requestId
                data == checkpoints[checkpointId].data
            IN  IF Exists(requests, requestId)
                THEN /\ requests' = FindByIdAndUpdate(requests, requestId,
                                                      RollbackUpdate(data))
                     /\ last' = Outcome("rollback", requestId, checkpointId,
                                        "ok", FALSE, FlagOf(requestId))
                ELSE /\ last' = Outcome("rollback", requestId, checkpointId,
                                        "InternalServerError", FALSE, TRUE)
                     /\ UNCHANGED requests
    /\ UNCHANGED <<checkpoints, nextRequestId, nextCheckpointId, clock>>

\* A remove that marks the checkpoint's Request unsaved.
CheckpointRemove_MarksUnsaved(id) ==
    /\ IF Exists(checkpoints, id)
       THEN /\ checkpoints' = DeleteOne(checkpoints, id)
            /\ requests' = setUnsavedStatus(checkpoints[id].requestId, TRUE, FALSE)
            /\ last' = Outcome("removeCheckpoint", checkpoints[id].requestId,
                               id, "ok", FALSE, FlagOf(checkpoints[id].requestId))
       ELSE /\ last' = Outcome("removeCheckpoint", 0, id, "NotFound",
                               FALSE, TRUE)
            /\ UNCHANGED <<requests, checkpoints>>
    /\ UNCHANGED <<nextRequestId, nextCheckpointId, clock>>

\* A remove that reports success for an id no checkpoint has.
CheckpointRemove_AlwaysDeleted(id) ==
    /\ IF Exists(checkpoints, id)
       THEN /\ checkpoints' = DeleteOne(checkpoints, id)
            /\ last' = Outcome("removeCheckpoint", checkpoints[id].requestId,
                               id, "ok", FALSE, FlagOf(checkpoints[id].requestId))
       ELSE /\ last' = Outcome("removeCheckpoint", 0, id, "ok", FALSE, TRUE)
            /\ UNCHANGED checkpoints
    /\ UNCHANGED <<requests, nextRequestId, nextCheckpointId, clock>>

\* CheckpointService.remove
CheckpointRemove(id) ==
    /\ IF Exists(checkpoints, id)
       THEN /\ checkpoints' = DeleteOne(checkpoints, id)
            /\ last' = Outcome("removeCheckpoint", checkpoints[id].requestId,
                               id, "ok", FALSE, FlagOf(checkpoints[id].requestId))
       ELSE /\ last' = Outcome("removeCheckpoint", 0, id, "NotFound",
                               FALSE, TRUE)
            /\ UNCHANGED checkpoints
    /\ UNCHANGED <<requests, nextRequestId, nextCheckpointId, clock>>

\* -------------------------------------------------------- RequesterService
\* JavaScript's a || b: b when a is undefined or empty.
Or(a, b) == IF a \in {Absent, ""} THEN b ELSE a

\* String.prototype.toUpperCase on the method names used here.
ToUpperCase(m) == IF m = "get" THEN "GET" ELSE m

\* validHttpMethods of SendRequestDto.
ValidHttpMethods == {"GET", "POST", "PUT", "DELETE", "PATCH", "HEAD", "OPTIONS"}

\* The payloads sendRequest is called with.
SendDtos ==
    [url : {"a", " a"}, method : {"GET", "get", "PATCH", "TRACE"},
     headers : {Absent, "h1"}, body : {Absent, "b1"}]

\* What the outbound call can end with.  With validateStatus: () => true
\* every response of the target, whatever its status, is emitted as a
\* response; the call errors without a response (network, DNS) or with
\* the response attached to the error.
TargetResponses ==
    [kind : {"response"}, status : {"200", "404", "500"},
     headers : {"rh"}, data : {"rd"}, message : {Absent}]

TargetErrors ==
    [kind : {"error"}, status : {Absent}, headers : {Absent}, data : {Absent},
     message : {"Network Error", "ENOTFOUND"}]
    \cup
    [kind : {"errorWithResponse"}, status : {"200", "503"},
     headers : {"rh"}, data : {"rd"}, message : {"bad response"}]

TargetOutcomes == TargetResponses \cup TargetErrors

\* The AxiosRequestConfig sendRequest builds.
RequestConfig(dto) ==
    [url |-> dto.url, method |-> ToUpperCase(dto.method),
     headers |-> Or(dto.headers, "{}"), data |-> dto.body]

\* A catchError that rejects every failure as a network failure.
CatchError_DropsResponse(error) ==
    [message |-> "Request failed: " \o error.message, status |-> "500",
     data |-> Absent, headers |-> Absent]

\* The catchError of the outbound call: what it throws for an error.
CatchError(error) ==
    IF error.kind = "errorWithResponse"
    THEN [message |-> "Error from target server: " \o error.message,
          status |-> error.status, data |-> error.data,
          headers |-> error.headers]
    ELSE [message |-> "Request failed: " \o error.message, status |-> "500",
          data |-> Absent, headers |-> Absent]

\* The outer catch: the structured error the service rejects with.
ServiceError(error) ==
    [settled |-> "rejected",
     message |-> Or(error.message,
                    "An unexpected error occurred while proxying the request."),
     status |-> Or(error.status, "500"),
     data |-> error.data, headers |-> error.headers]

\* A sendRequest that lets axios decide by status (no validateStatus):
\* a response with a 4xx or 5xx status is rejected.
SendRequestResult_RejectsErrorStatus(outcome) ==
    IF outcome.kind = "response" /\ outcome.status = "200"
    THEN [settled |-> "resolved", message |-> Absent,
          status |-> outcome.status, data |-> outcome.data,
          headers |-> outcome.headers]
    ELSE ServiceError(CatchError(
             [outcome EXCEPT !.kind = "errorWithResponse",
                             !.message = "Request failed with status code"]))

\* What RequesterService.sendRequest settles with, given how the outbound
\* call ends.
SendRequestResult(outcome) ==
    IF outcome.kind = "response"
    THEN [settled |-> "resolved", message |-> Absent,
          status |-> outcome.status, data |-> outcome.data,
          headers |-> outcome.headers]
    ELSE ServiceError(CatchError(outcome))

NoReply == [status |-> Absent, message |-> Absent, details |-> Absent]
NoResult ==
    [settled |-> Absent, message |-> Absent, status |-> Absent,
     data |-> Absent, headers |-> Absent]
NoConfig == [url |-> Absent, method |-> Absent, headers |-> Absent, data |-> Absent]

\* RequesterService.sendRequest, called directly.
RequesterService_sendRequest(dto, outcome) ==
    proxy' = [via |-> "service", dto |-> dto, outcome |-> outcome,
              config |-> RequestConfig(dto),
              result |-> SendRequestResult(outcome),
              reply |-> NoReply]

\* What RequesterController.sendRequest answers for the service's result:
\* the result itself with the status of a POST, or an HttpException.
ControllerReply(result) ==
    IF result.settled = "resolved"
    THEN [status |-> "201", message |-> Absent, details |-> Absent]
    ELSE [status |-> Or(result.status, "500"),
          message |-> Or(result.message, "Failed to proxy request"),
          details |-> result.data]

\* The controller's ValidationPipe on SendRequestDto.
SendPipeRejects(dto) ==
    ~IsUrl(dto.url) \/ dto.method \notin ValidHttpMethods

\* RequesterController.sendRequest
RequesterController_sendRequest(dto, outcome) ==
    IF SendPipeRejects(dto)
    THEN proxy' = [via |-> "controller", dto |-> dto, outcome |-> outcome,
                   config |-> NoConfig, result |-> NoResult,
                   reply |-> [status |-> "400", message |-> "Bad Request",
                              details |-> Absent]]
    ELSE proxy' = [via |-> "controller", dto |-> dto, outcome |-> outcome,
                   config |-> RequestConfig(dto),
                   result |-> SendRequestResult(outcome),
                   reply |-> ControllerReply(SendRequestResult(outcome))]

\* --------------------------------------------------------- useRequestStore
\* The frontend's zustand store of requests (request-store.ts).  A request
\* in the store is an IRequest, here its id and name; null is a request
\* with no id.
Null == "null"
NullRequest == [id |-> 0, name |-> Null]

Slots == 1..MaxInFlight
StoreErrors == {"e1"}
StoreNames == {"New Request", "n2"}

\* create((set, get) => ({ requests: [], selectedRequest: null, ... }))
InitialStore ==
    [requests |-> <<>>, selectedRequest |-> NullRequest, isLoading |-> FALSE,
     isMutating |-> FALSE, error |-> Null, mutationError |-> Null]

NoCall == [kind |-> "idle", payload |-> NullRequest, alone |-> TRUE]

InFlight == {c \in Slots : calls[c].kind # "idle"}

\* A call begins in the lowest free slot.
FreeSlot(c) == calls[c].kind = "idle" /\ \A d \in Slots : d < c => d \in InFlight

\* The calls in flight other than c have seen another call or setter run.
Disturbed(c) ==
    [d \in Slots |->
        IF d # c /\ d \in InFlight THEN [calls[d] EXCEPT !.alone = FALSE]
        ELSE calls[d]]

\* The lists the server hands out: the requests it has created so far.
ServerLists ==
    {<<>>} \cup
    {[i \in 1..n |-> [id |-> i, name |-> "New Request"]] : n \in 1..served}

\* setRequests
setRequests(list) ==
    /\ store' = [store EXCEPT !.requests = list, !.isLoading = FALSE]
    /\ calls' = Disturbed(0)
    /\ UNCHANGED <<served, thrown>>

\* setLoading
setLoading(loading) ==
    /\ store' = [store EXCEPT !.isLoading = loading]
    /\ calls' = Disturbed(0)
    /\ UNCHANGED <<served, thrown>>

\* setError
setError(error) ==
    /\ store' = [store EXCEPT !.error = error, !.isLoading = FALSE]
    /\ calls' = Disturbed(0)
    /\ UNCHANGED <<served, thrown>>

\* selectRequest
selectRequest(request) ==
    /\ store' = [store EXCEPT !.selectedRequest = request]
    /\ calls' = Disturbed(0)
    /\ UNCHANGED <<served, thrown>>

\* set({ isMutating: true, mutationError: null }) and the call of the
\* mutation function, which is then awaited.
Begin(c, kind, payload) ==
    /\ FreeSlot(c)
    /\ store' = [store EXCEPT !.isMutating = TRUE, !.mutationError = Null]
    /\ calls' = [Disturbed(c) EXCEPT ![c] =
                    [kind |-> kind, payload |-> payload,
                     alone |-> InFlight = {}]]
    /\ UNCHANGED <<served, thrown>>

\* A catch that drops the requests list.
Rejected_ClearsList(c, kind, e) ==
    /\ calls[c].kind = kind
    /\ store' = [store EXCEPT !.requests = <<>>, !.mutationError = e,
                               !.isMutating = FALSE]
    /\ calls' = [Disturbed(c) EXCEPT ![c] = NoCall]
    /\ thrown' = [kind |-> kind, error |-> e, alone |-> calls[c].alone]
    /\ UNCHANGED served

\* The catch of a mutation call: set({ mutationError: e, isMutating:
\* false }); throw e.
Rejected(c, kind, e) ==
    /\ calls[c].kind = kind
    /\ store' = [store EXCEPT !.mutationError = e, !.isMutating = FALSE]
    /\ calls' = [Disturbed(c) EXCEPT ![c] = NoCall]
    /\ thrown' = [kind |-> kind, error |-> e, alone |-> calls[c].alone]
    /\ UNCHANGED served

\* The create mutation resolves with the request the server created.
Created(c, kind) ==
    /\ calls[c].kind = kind
    /\ served < MaxStoreRequests
    /\ served' = served + 1
    /\ store' = [store EXCEPT
                    !.requests = Append(@, [id |-> served + 1,
                                            name |-> calls[c].payload.name]),
                    !.selectedRequest = [id |-> served + 1,
                                         name |-> calls[c].payload.name],
                    !.isMutating = FALSE]
    /\ calls' = [Disturbed(c) EXCEPT ![c] = NoCall]
    /\ thrown' = [kind |-> kind, error |-> Null, alone |-> calls[c].alone]

\* addRequest
addRequest_begin(c, requestPayload) == Begin(c, "addRequest", requestPayload)
addRequest_resolved(c) == Created(c, "addRequest")
addRequest_rejected(c, e) == Rejected(c, "addRequest", e)

\* updateRequest; the update mutation resolves with the updated request.
updateRequest_begin(c, requestPayload) ==
    Begin(c, "updateRequest", requestPayload)

updateRequest_resolved(c) ==
    /\ calls[c].kind = "updateRequest"
    /\ store' = [store EXCEPT
                    !.requests = [i \in DOMAIN @ |->
                                    IF @[i].id = calls[c].payload.id
                                    THEN calls[c].payload ELSE @[i]],
                    !.selectedRequest = IF @.id = calls[c].payload.id
                                        THEN calls[c].payload ELSE @,
                    !.isMutating = FALSE]
    /\ calls' = [Disturbed(c) EXCEPT ![c] = NoCall]
    /\ thrown' = [kind |-> "updateRequest", error |-> Null,
                  alone |-> calls[c].alone]
    /\ UNCHANGED served

updateRequest_rejected(c, e) == Rejected(c, "updateRequest", e)

\* addNewRequestAndSave, with its newDraftPayload.
NewDraftPayload == [id |-> 0, name |-> "New Request"]

addNewRequestAndSave_begin(c) ==
    Begin(c, "addNewRequestAndSave", NewDraftPayload)
addNewRequestAndSave_resolved(c) == Created(c, "addNewRequestAndSave")
addNewRequestAndSave_rejected(c, e) == Rejected(c, "addNewRequestAndSave", e)

\* The 'requests' query before any answer: no data, no answer on its way.
NoQuery == [pc |-> "idle", data |-> <<>>]

\* createRequest, the mutation function of the two creating calls: the
\* server creates the request and answers with it; the answer is then on
\* its way to the awaiting call.
createRequest_served(c) ==
    /\ calls[c].kind \in {"addRequest", "addNewRequestAndSave"}
    /\ calls[c].payload.id = 0
    /\ served < MaxStoreRequests
    /\ served' = served + 1
    /\ calls' = [calls EXCEPT ![c].payload.id = served + 1]
    /\ UNCHANGED <<store, thrown, query>>

\* The answer reaches the awaiting addRequest / addNewRequestAndSave: the
\* created request is appended and selected, isMutating is cleared.
createRequest_resolved(c) ==
    /\ calls[c].kind \in {"addRequest", "addNewRequestAndSave"}
    /\ calls[c].payload.id # 0
    /\ store' = [store EXCEPT
                    !.requests = Append(@, calls[c].payload),
                    !.selectedRequest = calls[c].payload,
                    !.isMutating = FALSE]
    /\ calls' = [Disturbed(c) EXCEPT ![c] = NoCall]
    /\ thrown' = [kind |-> calls[c].kind, error |-> Null,
                  alone |-> calls[c].alone]
    /\ UNCHANGED <<served, query>>

\* getRequests, the query function of useGetRequests: the server answers
\* with the list of the requests it holds (on mount, and on the refetch
\* that follows invalidateQueries(['requests'])).
getRequests_served ==
    /\ query.pc = "idle"
    /\ query' = [pc |-> "answered",
                 data |-> [i \in 1..served |->
                              [id |-> i, name |-> NewDraftPayload.name]]]
    /\ UNCHANGED <<store, calls, served, thrown>>

\* useInitializeRequestStore: the effect on fetchedRequests, run when the
\* answer arrives: the list replaces the store's when it differs from it.
useInitializeRequestStore_sync ==
    /\ query.pc = "answered"
    /\ query' = [query EXCEPT !.pc = "idle"]
    /\ IF \/ Len(query.data) # Len(store.requests)
          \/ query.data # store.requests
       THEN /\ store' = [store EXCEPT !.requests = query.data,
                                      !.isLoading = FALSE]
            /\ calls' = Disturbed(0)
       ELSE IF Len(query.data) = 0 /\ Len(store.requests) = 0
            THEN /\ store' = [store EXCEPT !.isLoading = FALSE]
                 /\ calls' = Disturbed(0)
            ELSE UNCHANGED <<store, calls>>
    /\ UNCHANGED <<served, thrown>>

\* No call in flight.
NoData == [url |-> Absent, method |-> Absent, headers |-> Absent, body |-> Absent]
Idle == [pc |-> "idle", requestId |-> 0, name |-> Absent, data |-> NoData, cid |-> 0]
NotStarted == [phase |-> 0, rid |-> 0, cid |-> 0]

Init ==
    /\ cc = Idle
    /\ rb = Idle
    /\ scenario = NotStarted
    /\ requests = [i \in {} |-> i]
    /\ checkpoints = [i \in {} |-> i]
    /\ nextRequestId = 1
    /\ nextCheckpointId = 1
    /\ clock = 1
    /\ last = Outcome("none", 0, 0, "ok", FALSE, TRUE)
    /\ proxy = [via |-> "none", dto |-> NoData, outcome |-> NoResult,
                config |-> NoConfig, result |-> NoResult, reply |-> NoReply]
    /\ store = InitialStore
    /\ calls = [c \in Slots |-> NoCall]
    /\ served = 0
    /\ thrown = [kind |-> "none", error |-> Null, alone |-> TRUE]
    /\ query = NoQuery

\* The variables a call that runs to its end leaves alone.
aux == <<cc, rb, scenario, outside>>

\* Calls run one at a time, each to its end.
Next ==
    \/ \E dto \in CreateDtos : create(dto) /\ UNCHANGED aux
    \/ \E body \in CreateBodies : RequestController_create(body) /\ UNCHANGED aux
    \/ findAll /\ UNCHANGED aux
    \/ \E id \in RequestIds : findOne(id) /\ UNCHANGED aux
    \/ \E id \in RequestIds : \E dto \in UpdateDtos :
          update(id, dto) /\ UNCHANGED aux
    \/ \E id \in RequestIds : remove(id) /\ UNCHANGED aux
    \/ \E id \in RequestIds : \E name \in CheckpointNames :
          \E dbFails \in BOOLEAN :
             CheckpointCreate(id, name, dbFails) /\ UNCHANGED aux
    \/ \E id \in RequestIds : findAllForRequest(id) /\ UNCHANGED aux
    \/ \E id \in CheckpointIds : rollback(id) /\ UNCHANGED aux
    \/ \E id \in CheckpointIds : CheckpointRemove(id) /\ UNCHANGED aux

Spec == Init /\ [][Next]_vars

\* ------------------------------------------------- the end-to-end scenario
\* The four calls of the scenario, made one after the other on a store that
\* earlier calls have left in any state: create a Request with url "a" and
\* method GET, checkpoint it as "v1", update its url to "b", roll back to v1.
ScenarioCreateDto ==
    [name |-> "n1", url |-> "a", method |-> "GET",
     headers |-> Absent, body |-> Absent]

ScenarioUpdateDto ==
    [url |-> "b", method |-> Absent, headers |-> Absent, body |-> Absent]

ScenarioNext ==
    \/ /\ scenario.phase = 0
       /\ Next
    \/ /\ scenario.phase = 0
       /\ create(ScenarioCreateDto)
       /\ scenario' = [phase |-> 1, rid |-> nextRequestId, cid |-> 0]
       /\ UNCHANGED <<cc, rb, outside>>
    \/ /\ scenario.phase = 1
       /\ CheckpointCreate(scenario.rid, "v1", FALSE)
       /\ scenario' = [scenario EXCEPT !.phase = 2, !.cid = nextCheckpointId]
       /\ UNCHANGED <<cc, rb, outside>>
    \/ /\ scenario.phase = 2
       /\ update(scenario.rid, ScenarioUpdateDto)
       /\ scenario' = [scenario EXCEPT !.phase = 3]
       /\ UNCHANGED <<cc, rb, outside>>
    \/ /\ scenario.phase = 3
       /\ rollback(scenario.cid)
       /\ scenario' = [scenario EXCEPT !.phase = 4]
       /\ UNCHANGED <<cc, rb, outside>>

ScenarioSpec == Init /\ [][ScenarioNext]_vars

\* ------------------------------------------------------- overlapping calls
\* CheckpointService.create and CheckpointService.rollback await one
\* database operation after the other; the calls of other clients run
\* between any two of them.  Every other call is one database operation.

\* create: the findById of the Request to checkpoint.
CheckpointCreate_findById(requestId, name) ==
    /\ cc.pc = "idle"
    /\ nextCheckpointId <= MaxCheckpoints
    /\ IF Exists(requests, requestId)
       THEN /\ cc' = [pc |-> "loaded", requestId |-> requestId, name |-> name,
                      data |-> CheckpointData(requests[requestId]), cid |-> 0]
            /\ UNCHANGED last
       ELSE /\ last' = Outcome("createCheckpoint", requestId, 0, "NotFound",
                               FALSE, TRUE)
            /\ UNCHANGED cc
    /\ UNCHANGED <<requests, checkpoints, nextRequestId, nextCheckpointId,
                   clock, rb, scenario, outside>>

\* A save that takes headers and body from the Request as it is when the
\* checkpoint is stored, and url and method from the earlier read.
CheckpointCreate_save_ReadsAgain ==
    /\ cc.pc = "loaded"
    /\ checkpoints' = Insert(checkpoints, nextCheckpointId,
            NewCheckpoint(cc.requestId, cc.name,
                IF Exists(requests, cc.requestId)
                THEN [cc.data EXCEPT
                         !.headers = requests[cc.requestId].headers,
                         !.body = requests[cc.requestId].body]
                ELSE cc.data))
    /\ nextCheckpointId' = nextCheckpointId + 1
    /\ clock' = clock + 1
    /\ cc' = [cc EXCEPT !.pc = "saved", !.cid = nextCheckpointId]
    /\ UNCHANGED <<requests, nextRequestId, last, rb, scenario, outside>>

\* create: newCheckpoint.save().
CheckpointCreate_save ==
    /\ cc.pc = "loaded"
    /\ checkpoints' = Insert(checkpoints, nextCheckpointId,
                             NewCheckpoint(cc.requestId, cc.name, cc.data))
    /\ nextCheckpointId' = nextCheckpointId + 1
    /\ clock' = clock + 1
    /\ cc' = [cc EXCEPT !.pc = "saved", !.cid = nextCheckpointId]
    /\ UNCHANGED <<requests, nextRequestId, last, rb, scenario, outside>>

\* A flag-reset step without the inner try/catch: a failure of
\* setUnsavedStatus fails the call.
CheckpointCreate_setUnsavedStatus_Rethrows(dbFails) ==
    /\ cc.pc = "saved"
    /\ requests' = setUnsavedStatus(cc.requestId, FALSE, dbFails)
    /\ last' = Outcome("createCheckpoint", cc.requestId, cc.cid,
                       IF SetUnsavedThrows(cc.requestId, dbFails)
                       THEN "Error" ELSE "ok",
                       SetUnsavedThrows(cc.requestId, dbFails),
                       FlagOf(cc.requestId))
    /\ cc' = Idle
    /\ UNCHANGED <<checkpoints, nextRequestId, nextCheckpointId, clock, rb,
                   scenario, outside>>

\* A flag-reset step that compares the Request with the snapshot first and
\* fails the call when a write has landed since the read.
CheckpointCreate_setUnsavedStatus_DetectsConflict(dbFails) ==
    /\ cc.pc = "saved"
    /\ IF /\ Exists(requests, cc.requestId)
          /\ CheckpointData(requests[cc.requestId]) # cc.data
       THEN /\ last' = Outcome("createCheckpoint", cc.requestId, cc.cid,
                               "Conflict", FALSE, FlagOf(cc.requestId))
            /\ UNCHANGED requests
       ELSE /\ requests' = setUnsavedStatus(cc.requestId, FALSE, dbFails)
            /\ last' = Outcome("createCheckpoint", cc.requestId, cc.cid, "ok",
                               SetUnsavedThrows(cc.requestId, dbFails),
                               FlagOf(cc.requestId))
    /\ cc' = Idle
    /\ UNCHANGED <<checkpoints, nextRequestId, nextCheckpointId, clock, rb,
                   scenario, outside>>

\* create: the flag-reset step in its try/catch, and the return.
CheckpointCreate_setUnsavedStatus(dbFails) ==
    /\ cc.pc = "saved"
    /\ requests' = setUnsavedStatus(cc.requestId, FALSE, dbFails)
    /\ last' = Outcome("createCheckpoint", cc.requestId, cc.cid, "ok",
                       SetUnsavedThrows(cc.requestId, dbFails),
                       FlagOf(cc.requestId))
    /\ cc' = Idle
    /\ UNCHANGED <<checkpoints, nextRequestId, nextCheckpointId, clock, rb,
                   scenario, outside>>

\* rollback: the findById of the checkpoint.
rollback_findById(checkpointId) ==
    /\ rb.pc = "idle"
    /\ IF Exists(checkpoints, checkpointId)
       THEN /\ rb' = [pc |-> "loaded",
                      requestId |-> checkpoints[checkpointId].requestId,
                      name |-> Absent,
                      data |-> checkpoints[checkpointId].data,
                      cid |-> checkpointId]
            /\ UNCHANGED last
       ELSE /\ last' = Outcome("rollback", 0, checkpointId, "NotFound",
                               FALSE, TRUE)
            /\ UNCHANGED rb
    /\ UNCHANGED <<requests, checkpoints, nextRequestId, nextCheckpointId,
                   clock, cc, scenario, outside>>

\* rollback: the findByIdAndUpdate of the Request, and the return.
rollback_findByIdAndUpdate ==
    /\ rb.pc = "loaded"
    /\ IF Exists(requests, rb.requestId)
       THEN /\ requests' = FindByIdAndUpdate(requests, rb.requestId,
                                             RollbackUpdate(rb.data))
            /\ last' = Outcome("rollback", rb.requestId, rb.cid, "ok", FALSE,
                               FlagOf(rb.requestId))
       ELSE /\ last' = Outcome("rollback", rb.requestId, rb.cid,
                               "InternalServerError", FALSE, TRUE)
            /\ UNCHANGED requests
    /\ rb' = Idle
    /\ UNCHANGED <<checkpoints, nextRequestId, nextCheckpointId, clock, cc,
                   scenario, outside>>

\* The payloads of the calls that overlap.
ConcurrentCreateDtos == {ScenarioCreateDto}
ConcurrentUpdateDtos ==
    { ScenarioUpdateDto,
      [url |-> Absent, method |-> Absent, headers |-> "h1", body |-> "b1"] }

ConcurrentNext ==
    \/ \E dto \in ConcurrentCreateDtos : create(dto) /\ UNCHANGED aux
    \/ \E id \in RequestIds : \E dto \in ConcurrentUpdateDtos :
          update(id, dto) /\ UNCHANGED aux
    \/ \E id \in RequestIds : remove(id) /\ UNCHANGED aux
    \/ \E id \in RequestIds : findAllForRequest(id) /\ UNCHANGED aux
    \/ \E id \in CheckpointIds : CheckpointRemove(id) /\ UNCHANGED aux
    \/ \E id \in RequestIds : \E name \in CheckpointNames :
          CheckpointCreate_findById(id, name)
    \/ CheckpointCreate_save
    \/ \E dbFails \in BOOLEAN : CheckpointCreate_setUnsavedStatus(dbFails)
    \/ \E id \in CheckpointIds : rollback_findById(id)
    \/ rollback_findByIdAndUpdate

ConcurrentSpec == Init /\ [][ConcurrentNext]_vars

\* RequestService.setUnsavedStatus called on its own, with either value:
\* the database operation fails, or no Request has the id (NotFound), or the
\* flag is written.
RequestService_setUnsavedStatus(id, status, dbFails) ==
    /\ requests' = setUnsavedStatus(id, status, dbFails)
    /\ last' = Outcome("setUnsavedStatus", id, 0,
                       IF dbFails THEN "Error"
                       ELSE IF Exists(requests, id) THEN "ok" ELSE "NotFound",
                       FALSE, IF Exists(requests, id) THEN FlagOf(id) ELSE TRUE)
    /\ UNCHANGED <<checkpoints, nextRequestId, nextCheckpointId, clock>>

\* The payloads of update next to the direct calls of setUnsavedStatus:
\* those of the overlapping calls and a url with leading whitespace.
ServiceUpdateDtos ==
    ConcurrentUpdateDtos \cup
    {[url |-> " a", method |-> Absent, headers |-> Absent, body |-> Absent]}

\* The services' calls with setUnsavedStatus among them.
ServiceNext ==
    \/ \E dto \in ConcurrentCreateDtos : create(dto) /\ UNCHANGED aux
    \/ \E id \in RequestIds : \E dto \in ServiceUpdateDtos :
          update(id, dto) /\ UNCHANGED aux
    \/ \E id \in RequestIds : remove(id) /\ UNCHANGED aux
    \/ \E id \in RequestIds : \E name \in CheckpointNames :
          \E dbFails \in BOOLEAN :
             CheckpointCreate(id, name, dbFails) /\ UNCHANGED aux
    \/ \E id \in CheckpointIds : rollback(id) /\ UNCHANGED aux
    \/ \E id \in RequestIds : \E status \in BOOLEAN : \E dbFails \in BOOLEAN :
          RequestService_setUnsavedStatus(id, status, dbFails) /\ UNCHANGED aux

ServiceSpec == Init /\ [][ServiceNext]_vars

\* ----------------------------------------------------- the proxy feature
\* The proxy keeps nothing between calls and does not touch the store.
core == <<requests, checkpoints, nextRequestId, nextCheckpointId, clock, last,
          cc, rb, scenario>>

RequesterNext ==
    \/ \E dto \in SendDtos : \E outcome \in TargetOutcomes :
          RequesterService_sendRequest(dto, outcome)
          /\ UNCHANGED <<core, frontend>>
    \/ \E dto \in SendDtos : \E outcome \in TargetOutcomes :
          RequesterController_sendRequest(dto, outcome)
          /\ UNCHANGED <<core, frontend>>

RequesterSpec == Init /\ [][RequesterNext]_vars

\* ------------------------------------------------------ the frontend store
\* The store's setters and its mutation calls; a mutation call is in flight
\* from its first set() to the settling of the mutation function, and other
\* calls and setters run in between.
UpdatePayloads == [id : 1..MaxStoreRequests, name : {"n2"}]
CreatePayloads == {[id |-> 0, name |-> "n2"]}

FrontendNext ==
    \/ \E list \in ServerLists : setRequests(list) /\ UNCHANGED <<core, proxy, query>>
    \/ \E b \in BOOLEAN : setLoading(b) /\ UNCHANGED <<core, proxy, query>>
    \/ \E e \in StoreErrors \cup {Null} : setError(e) /\ UNCHANGED <<core, proxy, query>>
    \/ \E i \in DOMAIN store.requests \cup {0} :
          selectRequest(IF i = 0 THEN NullRequest ELSE store.requests[i])
          /\ UNCHANGED <<core, proxy, query>>
    \/ \E c \in Slots : \E payload \in CreatePayloads :
          addRequest_begin(c, payload) /\ UNCHANGED <<core, proxy, query>>
    \/ \E c \in Slots : addRequest_resolved(c) /\ UNCHANGED <<core, proxy, query>>
    \/ \E c \in Slots : \E e \in StoreErrors :
          addRequest_rejected(c, e) /\ UNCHANGED <<core, proxy, query>>
    \/ \E c \in Slots : \E payload \in UpdatePayloads :
          updateRequest_begin(c, payload) /\ UNCHANGED <<core, proxy, query>>
    \/ \E c \in Slots : updateRequest_resolved(c) /\ UNCHANGED <<core, proxy, query>>
    \/ \E c \in Slots : \E e \in StoreErrors :
          updateRequest_rejected(c, e) /\ UNCHANGED <<core, proxy, query>>
    \/ \E c \in Slots : addNewRequestAndSave_begin(c) /\ UNCHANGED <<core, proxy, query>>
    \/ \E c \in Slots :
          addNewRequestAndSave_resolved(c) /\ UNCHANGED <<core, proxy, query>>
    \/ \E c \in Slots : \E e \in StoreErrors :
          addNewRequestAndSave_rejected(c, e) /\ UNCHANGED <<core, proxy, query>>

FrontendSpec == Init /\ [][FrontendNext]_vars

\* The creating calls with the server's answers on their way, next to the
\* 'requests' query and the effect that syncs the store with its answer.
SyncNext ==
    \/ \E c \in Slots :
          addRequest_begin(c, NewDraftPayload) /\ UNCHANGED <<core, proxy, query>>
    \/ \E c \in Slots :
          addNewRequestAndSave_begin(c) /\ UNCHANGED <<core, proxy, query>>
    \/ \E c \in Slots : createRequest_served(c) /\ UNCHANGED <<core, proxy>>
    \/ \E c \in Slots : createRequest_resolved(c) /\ UNCHANGED <<core, proxy>>
    \/ \E c \in Slots : \E e \in StoreErrors :
          addRequest_rejected(c, e) /\ UNCHANGED <<core, proxy, query>>
    \/ \E c \in Slots : \E e \in StoreErrors :
          addNewRequestAndSave_rejected(c, e) /\ UNCHANGED <<core, proxy, query>>
    \/ getRequests_served /\ UNCHANGED <<core, proxy>>
    \/ useInitializeRequestStore_sync /\ UNCHANGED <<core, proxy>>

SyncSpec == Init /\ [][SyncNext]_vars

\* ------------------------------------------------------------------ claims
\* The latest existing checkpoint of a Request that has one.
LatestCheckpoint(requestId) ==
    CHOOSE c \in CheckpointsOf(requestId) :
        \A d \in CheckpointsOf(requestId) :
            checkpoints[d].createdAt <= checkpoints[c].createdAt

\* C1: after a createCheckpoint that returned and whose flag-reset step did
\* not fail, the Request read again has unsaved = false, whatever the flag
\* was before.
C1_CheckpointCreateClearsUnsaved ==
    (last.op = "createCheckpoint" /\ last.result = "ok" /\ ~last.flagFailed)
        => /\ Exists(requests, last.rid)
           /\ requests[last.rid].unsaved = FALSE

C1_Witness ==
    /\ last.op = "createCheckpoint" /\ last.result = "ok" /\ ~last.flagFailed
    /\ last.wasUnsaved
    /\ requests[last.rid].unsaved = FALSE

\* C2: after a rollback that succeeded, the Request's url, method, headers
\* and body each equal the checkpoint's data, and unsaved is true.
C2_RollbackRestoresData ==
    (last.op = "rollback" /\ last.result = "ok")
        => /\ CheckpointData(requests[last.rid]) = checkpoints[last.cid].data
           /\ requests[last.rid].unsaved = TRUE

\* C3: a checkpoint's data never changes while the checkpoint exists.
C3_CheckpointDataImmutable ==
    [][\A c \in DOMAIN checkpoints :
          c \in DOMAIN checkpoints' =>
              checkpoints'[c].data = checkpoints[c].data]_vars

C3_Witness ==
    \E c \in DOMAIN checkpoints :
        /\ Exists(requests, checkpoints[c].requestId)
        /\ last.op = "update" /\ last.result = "ok"
        /\ last.rid = checkpoints[c].requestId
        /\ CheckpointData(requests[last.rid]) # checkpoints[c].data

\* C4: a successful update leaves unsaved = true, whatever it was before.
C4_UpdateSetsUnsaved ==
    (last.op = "update" /\ last.result = "ok")
        => requests[last.rid].unsaved = TRUE

C4_Witness ==
    /\ last.op = "update" /\ last.result = "ok"
    /\ ~last.wasUnsaved
    /\ requests[last.rid].unsaved = TRUE

\* C5: a Request returned by a successful create has unsaved = true.
C5_CreateIsUnsaved ==
    (last.op = "create" /\ last.result = "ok")
        => /\ Exists(requests, last.rid)
           /\ requests[last.rid].unsaved = TRUE

C5_Witness ==
    /\ last.op = "create" /\ last.result = "ok"
    /\ requests[last.rid].headers # Absent
    /\ requests[last.rid].unsaved = TRUE

\* The Request's fields are the data of its latest existing checkpoint.
MatchesLatestCheckpoint(r) ==
    /\ CheckpointsOf(r) # {}
    /\ CheckpointData(requests[r]) = checkpoints[LatestCheckpoint(r)].data

\* C6: every Request with unsaved = false has a checkpoint, and its fields
\* equal the data of its most recently created existing checkpoint.
C6_SavedMatchesLatestCheckpoint ==
    \A r \in DOMAIN requests :
        ~requests[r].unsaved => MatchesLatestCheckpoint(r)

\* C6 as amended: with calls running one at a time, a Request that is saved
\* and matches its latest checkpoint (or is unsaved) stays so over every
\* call except a deleteCheckpoint of one of its checkpoints; so the flag
\* tells the truth as long as no checkpoint of the Request is deleted.
SavedImpliesMatch(r) ==
    (Exists(requests, r) /\ ~requests[r].unsaved) => MatchesLatestCheckpoint(r)

C6_SavedMatchesUntilCheckpointDeleted ==
    [][\A r \in RequestIds :
          (/\ SavedImpliesMatch(r)
           /\ ~(/\ last'.op = "removeCheckpoint" /\ last'.result = "ok"
                /\ last'.rid = r))
          => SavedImpliesMatch(r)']_vars

C6_Witness ==
    \E r \in DOMAIN requests :
        /\ ~requests[r].unsaved
        /\ Cardinality(CheckpointsOf(r)) = 2
        /\ checkpoints[1].data # checkpoints[2].data
        /\ MatchesLatestCheckpoint(r)

\* C7: a Request's flag goes from true to false only in the flag-reset step
\* of a createCheckpoint on that Request whose checkpoint was persisted.
C7_OnlyCheckpointCreateClearsUnsaved ==
    [][\A r \in DOMAIN requests :
          (/\ requests[r].unsaved
           /\ r \in DOMAIN requests'
           /\ ~requests'[r].unsaved)
          => /\ last'.op = "createCheckpoint" /\ last'.result = "ok"
             /\ last'.rid = r
             /\ ~Exists(checkpoints, last'.cid)
             /\ Exists(checkpoints', last'.cid)
             /\ checkpoints'[last'.cid].requestId = r]_vars

C7_Witness ==
    /\ last.op = "createCheckpoint" /\ last.result = "ok"
    /\ last.wasUnsaved
    /\ ~requests[last.rid].unsaved
    /\ \E r \in DOMAIN requests : r # last.rid /\ requests[r].unsaved

\* listCheckpoints(requestId) succeeds and its result holds the checkpoint.
Listable(requestId, checkpointId) ==
    /\ FindAllForRequestResult(requestId).result = "ok"
    /\ \E i \in DOMAIN FindAllForRequestResult(requestId).list :
          FindAllForRequestResult(requestId).list[i] = checkpointId

\* The step that ends a createCheckpoint call is its flag-reset step, and
\* the checkpoint the call saved is still stored when the step starts.
FlagResetStepFails ==
    /\ cc.pc = "saved" /\ cc'.pc = "idle"
    /\ last'.op = "createCheckpoint" /\ last'.flagFailed
    /\ Exists(checkpoints, cc.cid)

\* What a failed flag-reset step leaves behind whatever made it fail: the
\* call succeeds and returns the checkpoint, the checkpoint stays stored,
\* and a Request that exists keeps its flag.
FlagResetFailureSwallowed ==
    /\ last'.result = "ok" /\ last'.rid = cc.requestId /\ last'.cid = cc.cid
    /\ Exists(checkpoints', cc.cid)
    /\ checkpoints'[cc.cid].requestId = cc.requestId
    /\ Exists(requests, cc.requestId)
          => /\ Exists(requests', cc.requestId)
             /\ requests'[cc.requestId].unsaved = requests[cc.requestId].unsaved

\* C8: when the flag-reset step of createCheckpoint fails, for any reason,
\* the Request being gone included, the call still succeeds and returns the
\* checkpoint, the checkpoint stays persisted and listable, and the flag
\* keeps its value.
C8_FlagResetFailureKeepsCheckpointListable ==
    [][\A r \in RequestIds : \A c \in CheckpointIds :
          (FlagResetStepFails /\ r = cc.requestId /\ c = cc.cid)
          => /\ FlagResetFailureSwallowed
             /\ Listable(r, c)']_vars

\* C8 as amended: the same, but the checkpoint is listable only when the
\* Request still exists; when the Request is gone, listCheckpoints fails
\* with NotFound although the checkpoint is stored.
C8_FlagResetFailureKeepsCheckpoint ==
    [][\A r \in RequestIds : \A c \in CheckpointIds :
          (FlagResetStepFails /\ r = cc.requestId /\ c = cc.cid)
          => /\ FlagResetFailureSwallowed
             /\ IF Exists(requests', r)
                THEN Listable(r, c)'
                ELSE /\ FindAllForRequestResult(r)'.result = "NotFound"
                     /\ c \in CheckpointsOf(r)']_vars

C8_Witness ==
    /\ last.op = "createCheckpoint" /\ last.result = "ok" /\ last.flagFailed
    /\ cc.pc = "idle"
    /\ ~Exists(requests, last.rid)
    /\ Exists(checkpoints, last.cid)
    /\ checkpoints[last.cid].requestId = last.rid

\* C9: rollback of an id no checkpoint has fails with NotFound; rollback of
\* a checkpoint whose Request is gone fails with InternalServerError; a
\* rollback that fails changes no Request and no checkpoint.
C9_RollbackErrors ==
    [][last'.op = "rollback" =>
          /\ ~Exists(checkpoints, last'.cid) => last'.result = "NotFound"
          /\ (/\ Exists(checkpoints, last'.cid)
              /\ ~Exists(requests, checkpoints[last'.cid].requestId))
                 => last'.result = "InternalServerError"
          /\ last'.result # "ok"
                 => requests' = requests /\ checkpoints' = checkpoints]_vars

C9_Witness ==
    /\ last.op = "rollback" /\ last.result = "InternalServerError"
    /\ Exists(checkpoints, last.cid)
    /\ ~Exists(requests, checkpoints[last.cid].requestId)

\* C10: in the scenario, after the update the Request is unsaved with url
\* "b" while v1 still holds url "a"; after the rollback the Request's url
\* is "a" again and it is unsaved.
C10_ScenarioRollbackRestoresUrl ==
    /\ scenario.phase = 3 =>
          /\ requests[scenario.rid].url = "b"
          /\ requests[scenario.rid].unsaved = TRUE
          /\ checkpoints[scenario.cid].data.url = "a"
    /\ scenario.phase = 4 =>
          /\ last.op = "rollback" /\ last.result = "ok"
          /\ requests[scenario.rid].url = "a"
          /\ requests[scenario.rid].unsaved = TRUE

C10_Witness ==
    /\ scenario.phase = 4
    /\ requests[scenario.rid].url = "a"
    /\ requests[scenario.rid].unsaved = TRUE
    /\ checkpoints[scenario.cid].name = "v1"

\* The sequence listCheckpoints(requestId) returns.
ListOf(requestId) == FindAllForRequestResult(requestId).list

\* C11: for an existing Request, listCheckpoints returns each existing
\* checkpoint of that Request once and no other checkpoint, and of any two
\* it returns, the one created later comes earlier.
C11_ListIsOwnCheckpointsNewestFirst ==
    \A r \in DOMAIN requests :
        /\ FindAllForRequestResult(r).result = "ok"
        /\ {ListOf(r)[i] : i \in DOMAIN ListOf(r)} =
               {c \in DOMAIN checkpoints : checkpoints[c].requestId = r}
        /\ \A i, j \in DOMAIN ListOf(r) :
               /\ i # j => ListOf(r)[i] # ListOf(r)[j]
               /\ ListOf(r)[j] > ListOf(r)[i] => j < i

C11_Witness ==
    /\ last.op = "findAllForRequest" /\ last.result = "ok"
    /\ ListOf(last.rid) = <<2, 1>>

\* C12: listCheckpoints fails with NotFound exactly when the Request does
\* not exist, checkpoints that still reference it or not; for a Request
\* that exists and has no checkpoint it returns the empty sequence.
C12_ListNotFoundIffRequestMissing ==
    /\ last.op = "findAllForRequest" =>
          /\ (last.result = "NotFound") = ~Exists(requests, last.rid)
          /\ last.result = FindAllForRequestResult(last.rid).result
    /\ \A r \in RequestIds :
          IF Exists(requests, r)
          THEN CheckpointsOf(r) = {} =>
                  /\ FindAllForRequestResult(r).result = "ok"
                  /\ ListOf(r) = <<>>
          ELSE FindAllForRequestResult(r).result = "NotFound"

C12_Witness ==
    /\ last.op = "findAllForRequest" /\ last.result = "NotFound"
    /\ CheckpointsOf(last.rid) # {}

\* The ids of the checkpoints that were created and deleted since.
DeletedCheckpoints == (1..(nextCheckpointId - 1)) \ DOMAIN checkpoints

\* C13: deleteCheckpoint of an id no checkpoint has fails with NotFound and
\* deletes nothing; of an existing checkpoint it succeeds with that id and
\* removes that checkpoint alone; a deleted id is never found again, and a
\* rollback or another delete of it fails with NotFound.
C13_DeleteCheckpoint ==
    [][/\ last'.op = "removeCheckpoint" =>
             /\ requests' = requests
             /\ IF Exists(checkpoints, last'.cid)
                THEN /\ last'.result = "ok"
                     /\ checkpoints' = DeleteOne(checkpoints, last'.cid)
                ELSE /\ last'.result = "NotFound"
                     /\ checkpoints' = checkpoints
       /\ \A c \in DeletedCheckpoints :
             /\ ~Exists(checkpoints', c)
             /\ (last'.op \in {"rollback", "removeCheckpoint"} /\ last'.cid = c)
                   => last'.result = "NotFound"]_vars

C13_Witness ==
    /\ last.op = "removeCheckpoint" /\ last.result = "NotFound"
    /\ last.cid \in DeletedCheckpoints
    /\ DOMAIN checkpoints # {}

\* C14: every create through the controller that supplies a valid url and
\* a valid method succeeds, persists a new Request and returns it with
\* unsaved = true.
C14_ControllerCreateSucceeds ==
    [][\A body \in CreateBodies :
          (/\ RequestController_create(body)
           /\ IsUrl(body.url) /\ body.method \in Methods)
          => /\ last'.result = "ok"
             /\ ~Exists(requests, last'.rid)
             /\ Exists(requests', last'.rid)
             /\ requests'[last'.rid].unsaved = TRUE]_vars

\* C15: createCheckpoint on a Request id that does not exist fails with
\* NotFound, persists no checkpoint and leaves every Request, flags
\* included, as it was.
C15_CreateCheckpointOfMissingRequest ==
    [][\A r \in RequestIds :
          (/\ last'.op = "createCheckpoint" /\ last'.rid = r
           /\ ~Exists(requests, r))
          => /\ last'.result = "NotFound"
             /\ checkpoints' = checkpoints
             /\ nextCheckpointId' = nextCheckpointId
             /\ requests' = requests]_vars

C15_Witness ==
    /\ last.op = "createCheckpoint" /\ last.result = "NotFound"
    /\ ~Exists(requests, last.rid)
    /\ \E r \in DOMAIN requests : ~requests[r].unsaved
    /\ DOMAIN checkpoints # {}

\* C16: with update and createCheckpoint overlapping on one Request, the
\* flag-reset step of createCheckpoint that does not fail succeeds and
\* sets unsaved = false whatever has been written to the Request since the
\* call read it; so a state is reached where an update landed between the
\* read and the flag reset, both calls succeeded, and the Request is
\* marked saved although its fields differ from the checkpoint just made.
C16_FlagResetOverwritesConcurrentUpdate ==
    [][\A r \in RequestIds :
          (/\ cc.pc = "saved" /\ cc'.pc = "idle" /\ r = cc.requestId
           /\ Exists(requests, r) /\ ~last'.flagFailed)
          => /\ last'.op = "createCheckpoint" /\ last'.result = "ok"
             /\ Exists(requests', r)
             /\ requests'[r].unsaved = FALSE
             /\ CheckpointData(requests'[r]) = CheckpointData(requests[r])]_vars

C16_Witness ==
    /\ last.op = "createCheckpoint" /\ last.result = "ok"
    /\ ~last.flagFailed /\ last.wasUnsaved
    /\ Exists(requests, last.rid) /\ Exists(checkpoints, last.cid)
    /\ requests[last.rid].unsaved = FALSE
    /\ checkpoints[last.cid].requestId = last.rid
    /\ checkpoints[last.cid].data.headers = Absent
    /\ requests[last.rid].headers = "h1"
    /\ CheckpointsOf(last.rid) = {last.cid}

\* C17: a successful delete of a Request removes that Request alone: every
\* checkpoint, those of the deleted Request included, is still stored with
\* the requestId and data it had, and every other Request is as it was.
C17_RemoveKeepsCheckpoints ==
    [][\A r \in RequestIds :
          (last'.op = "remove" /\ last'.result = "ok" /\ last'.rid = r)
          => /\ Exists(requests, r) /\ ~Exists(requests', r)
             /\ checkpoints' = checkpoints
             /\ \A o \in DOMAIN requests \ {r} :
                   Exists(requests', o) /\ requests'[o] = requests[o]
             /\ DOMAIN requests' = DOMAIN requests \ {r}]_vars

C17_Witness ==
    /\ last.op = "remove" /\ last.result = "ok"
    /\ ~Exists(requests, last.rid)
    /\ \E c \in DOMAIN checkpoints :
          /\ checkpoints[c].requestId = last.rid
          /\ checkpoints[c].data.url = "b"
    /\ DOMAIN requests # {}

\* The service was called and the outbound call was made.
Proxied == proxy.via # "none" /\ proxy.result.settled # Absent

\* C18: whatever status the target's response has, 4xx and 5xx included,
\* sendRequest resolves with the status, headers and data of that
\* response.
C18_SendRequestResolvesForEveryStatus ==
    (Proxied /\ proxy.outcome.kind = "response")
        => /\ proxy.result.settled = "resolved"
           /\ proxy.result.status = proxy.outcome.status
           /\ proxy.result.headers = proxy.outcome.headers
           /\ proxy.result.data = proxy.outcome.data

C18_Witness ==
    /\ proxy.via = "service"
    /\ proxy.outcome.kind = "response" /\ proxy.outcome.status = "500"
    /\ proxy.result.settled = "resolved" /\ proxy.result.status = "500"

\* C19: when the outbound call fails, sendRequest rejects with a status
\* and a message: status 500 and "Request failed: <cause>" for a failure
\* without a response, the response's status, data and headers and "Error
\* from target server: <cause>" for a failure that carries one; and the
\* controller answers a rejection with an HTTP error of the rejection's
\* status.
C19_SendRequestRejectsStructured ==
    /\ (Proxied /\ proxy.outcome.kind = "error")
          => /\ proxy.result.settled = "rejected"
             /\ proxy.result.status = "500"
             /\ proxy.result.message = "Request failed: " \o proxy.outcome.message
    /\ (Proxied /\ proxy.outcome.kind = "errorWithResponse")
          => /\ proxy.result.settled = "rejected"
             /\ proxy.result.status = proxy.outcome.status
             /\ proxy.result.data = proxy.outcome.data
             /\ proxy.result.headers = proxy.outcome.headers
             /\ proxy.result.message =
                    "Error from target server: " \o proxy.outcome.message
    /\ (Proxied /\ proxy.result.settled = "rejected")
          => /\ proxy.outcome.kind # "response"
             /\ proxy.result.status # Absent
             /\ proxy.result.message \notin {Absent, ""}
             /\ proxy.via = "controller"
                   => proxy.reply.status = proxy.result.status

C19_Witness ==
    /\ proxy.via = "controller"
    /\ proxy.outcome.kind = "errorWithResponse" /\ proxy.outcome.status = "503"
    /\ proxy.result.settled = "rejected"
    /\ proxy.reply.status = "503"

\* C20: a call of addRequest, updateRequest or addNewRequestAndSave that
\* runs alone changes neither the requests list nor selectedRequest when
\* it begins, and ends with isMutating = false; when the mutation function
\* rejects, the list and selectedRequest stay as they are, mutationError is
\* the error and the error is thrown to the caller; when it resolves,
\* mutationError is null.
C20_MutationCallRunAlone ==
    [][\A c \in Slots :
          /\ (calls[c].kind = "idle" /\ calls'[c].kind # "idle")
                => /\ store'.requests = store.requests
                   /\ store'.selectedRequest = store.selectedRequest
          /\ (calls[c].kind # "idle" /\ calls[c].alone /\ calls'[c].kind = "idle")
                => /\ store'.isMutating = FALSE
                   /\ thrown'.kind = calls[c].kind
                   /\ IF thrown'.error # Null
                      THEN /\ store'.requests = store.requests
                           /\ store'.selectedRequest = store.selectedRequest
                           /\ store'.mutationError = thrown'.error
                      ELSE store'.mutationError = Null]_vars

C20_Witness ==
    /\ thrown.kind = "updateRequest" /\ thrown.alone /\ thrown.error = "e1"
    /\ InFlight = {}
    /\ store.mutationError = "e1" /\ ~store.isMutating
    /\ Len(store.requests) = 2
    /\ store.selectedRequest = store.requests[2]

\* C21: a deleteCheckpoint, successful or not, leaves every Request as it
\* was, flag and fields, also when it deletes the latest checkpoint of a
\* saved Request; and every checkpoint but the deleted one is as it was.
C21_DeleteCheckpointKeepsRequests ==
    [][last'.op = "removeCheckpoint" =>
          /\ requests' = requests
          /\ \A c \in DOMAIN checkpoints \ {last'.cid} :
                Exists(checkpoints', c) /\ checkpoints'[c] = checkpoints[c]
          /\ DOMAIN checkpoints' \subseteq DOMAIN checkpoints]_vars

C21_Witness ==
    /\ last.op = "removeCheckpoint" /\ last.result = "ok"
    /\ Exists(requests, last.rid)
    /\ requests[last.rid].unsaved = FALSE
    /\ \E c \in CheckpointsOf(last.rid) :
          /\ c < last.cid
          /\ checkpoints[c].data # CheckpointData(requests[last.rid])

C25_OnlyUpdateAndRollbackSetUnsaved ==
    [][\A r \in DOMAIN requests :
          (/\ ~requests[r].unsaved
           /\ r \in DOMAIN requests'
           /\ requests'[r].unsaved)
          => /\ last'.result = "ok" /\ last'.rid = r
             /\ \/ last'.op = "update"
                \/ /\ last'.op = "rollback"
                   /\ checkpoints[last'.cid].requestId = r]_vars

C25_Witness ==
    /\ last.op = "rollback" /\ last.result = "ok"
    /\ ~last.wasUnsaved
    /\ requests[last.rid].unsaved
    /\ \E o \in DOMAIN requests : o # last.rid /\ ~requests[o].unsaved

C26_SnapshotIsOneRead ==
    [][/\ (cc.pc = "idle" /\ cc'.pc = "loaded")
          => /\ Exists(requests, cc'.requestId)
             /\ cc'.data = CheckpointData(requests[cc'.requestId])
       /\ (cc.pc = "loaded" /\ cc'.pc = "loaded") => cc'.data = cc.data
       /\ (cc.pc = "loaded" /\ cc'.pc = "saved")
          => /\ cc'.cid \notin DOMAIN checkpoints
             /\ Exists(checkpoints', cc'.cid)
             /\ checkpoints'[cc'.cid].requestId = cc.requestId
             /\ checkpoints'[cc'.cid].data = cc.data
       /\ \A c \in DOMAIN checkpoints \cap DOMAIN checkpoints' :
             checkpoints'[c].data = checkpoints[c].data]_vars

C26_Witness ==
    /\ cc.pc = "saved"
    /\ Exists(requests, cc.requestId) /\ Exists(checkpoints, cc.cid)
    /\ checkpoints[cc.cid].data.url = "a"
    /\ checkpoints[cc.cid].data.headers = Absent
    /\ requests[cc.requestId].url = "b"
    /\ requests[cc.requestId].headers = "h1"

\* C27: when the Request is removed after createCheckpoint read it, the
\* call goes on: the save stores the checkpoint, the failed flag reset is
\* swallowed, the call reports success, and the checkpoint it leaves refers
\* to no existing Request.
C27_CheckpointOfRemovedRequest ==
    [][\A r \in RequestIds : \A c \in CheckpointIds :
          (r = cc.requestId /\ ~Exists(requests, r))
          => /\ (cc.pc = "loaded" /\ cc'.pc = "saved" /\ c = cc'.cid)
                => /\ Exists(checkpoints', c)
                   /\ checkpoints'[c].requestId = r
             /\ (cc.pc = "saved" /\ cc'.pc = "idle" /\ c = cc.cid
                 /\ Exists(checkpoints, c))
                => /\ last'.op = "createCheckpoint" /\ last'.result = "ok"
                   /\ last'.cid = c
                   /\ Exists(checkpoints', c)
                   /\ checkpoints'[c].requestId = r
                   /\ ~Exists(requests', r)]_vars

C27_Witness ==
    /\ last.op = "createCheckpoint" /\ last.result = "ok"
    /\ cc.pc = "idle"
    /\ DOMAIN requests = {}
    /\ Exists(checkpoints, last.cid)
    /\ checkpoints[last.cid].requestId = last.rid
    /\ nextCheckpointId = last.cid + 1

\* C28: the write of a rollback, also when the checkpoint was deleted after
\* the rollback read it, succeeds and leaves the Request with the
\* checkpoint's url, method, headers and body and the flag set, all in the
\* one step.
C28_RollbackWriteIsWhole ==
    [][\A r \in RequestIds :
          (/\ rb.pc = "loaded" /\ rb'.pc = "idle"
           /\ r = rb.requestId /\ Exists(requests, r))
          => /\ last'.op = "rollback" /\ last'.result = "ok"
             /\ CheckpointData(requests'[r]) = rb.data
             /\ requests'[r].unsaved]_vars

\* C29: isMutating is true in every state in which a call of addRequest,
\* updateRequest or addNewRequestAndSave has begun and not settled.
C29_MutatingWhileInFlight == InFlight # {} => store.isMutating

\* C30: the store's requests list never holds two entries with the same
\* id, however the creating calls and the sync with the server's list
\* interleave.
C30_NoDuplicateIds ==
    \A i, j \in DOMAIN store.requests :
        i # j => store.requests[i].id # store.requests[j].id

====
